---- MODULE Spec2Model ----
(***************************************************************************)
(* Receivable / bank-transaction reconciliation (alj16/testing-python).   *)
(*                                                                         *)
(* The model follows main() of src/Test6.py: load_data produces the three  *)
(* tables, preprocess_data resolves the statement names and upper-cases    *)
(* the descriptions, reconcile folds over the receivables against the      *)
(* bank DataFrame.  src/work_ai.py is modelled next to it as a second      *)
(* specification over the same variables.                                  *)
(*                                                                         *)
(* Text is a sequence of one-character strings, so that upper-casing,      *)
(* str() and substring search are computed and not assumed.  Amounts are   *)
(* whole currency units.                                                   *)
(***************************************************************************)
EXTENDS Integers, Sequences, FiniteSets, TLC

VARIABLES
    pc,         \* position in main(): "loaded", "preprocessed", "reconcile", "done", "error"
    name_dict,  \* Counterparty -> dictionary value (a list of names in Test6.py)
    bank_df,    \* reconcile's bank DataFrame: rows in load order, each with its index label
    bb_df,      \* the receivables, in input order
    it,         \* number of receivables the loop of reconcile has consumed
    results,    \* the result rows appended so far
    loaded,     \* main()'s bank DataFrame after preprocess_data (never filtered)
    call        \* the last call of the subset-sum search: its arguments and its result

vars == <<pc, name_dict, bank_df, bb_df, it, results, loaded, call>>

----------------------------------------------------------------------------
(* Bounds of the model *)

MaxTxns == 3
MaxRecv == 2

----------------------------------------------------------------------------
(* Text *)

\* str.upper() on one character of the alphabet the model uses
UpperChar(c) ==
    CASE c = "a" -> "A"
      [] c = "c" -> "C"
      [] c = "g" -> "G"
      [] c = "h" -> "H"
      [] c = "n" -> "N"
      [] c = "p" -> "P"
      [] c = "y" -> "Y"
      [] c = "z" -> "Z"
      [] OTHER -> c

\* str.upper()
Upper(s) == [j \in 1..Len(s) |-> UpperChar(s[j])]

\* Python's `name in x` on two strings: name occurs in x as a substring
Contains(x, name) ==
    \E off \in 0..(Len(x) - Len(name)) :
        \A j \in 1..Len(name) : x[off + j] = name[j]

\* what Series.map leaves for a key the dictionary does not have
NaN == "NaN"

\* str(float('nan'))
StrOfNaN == <<"n", "a", "n">>

----------------------------------------------------------------------------
(* Input universe *)

cpAc == <<"A", "c">>
cpGh == <<"G", "h">>
Counterparties == {cpAc, cpGh}

descAc == <<"A", "c", " ", "p", "a", "y">>
descGh == <<"G", "H">>
RawDescriptions == {descAc, descGh}

Amounts == {2, 5}
NetBilled == {5, 6}

\* name_dict as load_data of Test6.py builds it: Counterparty -> list of str
DictBoth == (cpAc :> << <<"a", "c">> >>) @@ (cpGh :> << <<"z", "z">>, <<"g", "h">> >>)
DictAcOnly == (cpAc :> << <<"a", "c">> >>)
Dicts == {DictBoth, DictAcOnly}

SeqsUpTo(S, lo, hi) == UNION {[1..n -> S] : n \in lo..hi}

BankRows == [DESCRIPTION : RawDescriptions, AMOUNT : Amounts]
BBRows == [Counterparty : Counterparties, NetBilled : NetBilled]

\* pandas gives the rows of a freshly read file the index labels 0, 1, 2, ...
WithIndex(rows) ==
    [j \in 1..Len(rows) |->
        [name |-> j - 1, DESCRIPTION |-> rows[j].DESCRIPTION, AMOUNT |-> rows[j].AMOUNT]]

NoCall == [made |-> FALSE]

Range(f) == {f[j] : j \in DOMAIN f}

\* the index labels of the rows of a DataFrame
Labels(df) == {df[j].name : j \in 1..Len(df)}

RECURSIVE SumSeq(_)
\* Python's sum() over a tuple of amounts
SumSeq(s) == IF s = <<>> THEN 0 ELSE s[1] + SumSeq(Tail(s))

Abs(x) == IF x < 0 THEN -x ELSE x

----------------------------------------------------------------------------
(* src/Test6.py: preprocess_data *)

\* Series.map(name_dict): the dictionary value, or NaN for a missing key
SeriesMap(d, key) ==
    IF key \in DOMAIN d THEN [isna |-> FALSE, value |-> d[key]] ELSE [isna |-> TRUE]

\* lines 44-45: x if isinstance(x, list) else [str(x)], then upper() of each name
StatementNames(x) ==
    LET l == IF ~x.isna THEN x.value ELSE <<StrOfNaN>>
    IN  [j \in 1..Len(l) |-> Upper(l[j])]

preprocess_data ==
    /\ pc = "loaded"
    /\ bb_df' = [j \in 1..Len(bb_df) |->
                    [Counterparty |-> bb_df[j].Counterparty,
                     NetBilled |-> bb_df[j].NetBilled,
                     StatementNames |->
                        StatementNames(SeriesMap(name_dict, bb_df[j].Counterparty))]]
    /\ bank_df' = [j \in 1..Len(bank_df) |->
                    [name |-> bank_df[j].name,
                     DESCRIPTION |-> Upper(bank_df[j].DESCRIPTION),
                     AMOUNT |-> bank_df[j].AMOUNT]]
    /\ loaded' = bank_df'
    /\ pc' = "preprocessed"
    /\ UNCHANGED <<name_dict, it, results, call>>

----------------------------------------------------------------------------
(* src/Test6.py: find_matching_transactions *)

\* default of the tolerance parameter
Tolerance == 1

RECURSIVE Combinations(_, _, _)
\* itertools.combinations over the positions lo..n, r at a time: the position
\* tuples in the order the iterator yields them (lexicographic by position)
Combinations(lo, n, r) ==
    IF r = 0 THEN << <<>> >>
    ELSE IF n - lo + 1 < r THEN <<>>
    ELSE LET with == Combinations(lo + 1, n, r - 1)
         IN  [j \in 1..Len(with) |-> <<lo>> \o with[j]] \o Combinations(lo + 1, n, r)

\* the amounts a position tuple selects
Pick(amounts, combo) == [j \in 1..Len(combo) |-> amounts[combo[j]]]

\* line 65 with abs() left out
QualifiesNoAbs(total, target_amount, tolerance) == total - target_amount <= tolerance

\* line 65
Qualifies(total, target_amount, tolerance) == Abs(total - target_amount) <= tolerance

RECURSIVE LastCombo(_, _, _, _, _)
\* lines 63-66 without the early return: a later qualifying tuple replaces an earlier one
LastCombo(cs, j, amounts, target_amount, tolerance) ==
    IF j > Len(cs) THEN [found |-> FALSE]
    ELSE LET later == LastCombo(cs, j + 1, amounts, target_amount, tolerance)
         IN  IF later.found THEN later
             ELSE IF Qualifies(SumSeq(Pick(amounts, cs[j])), target_amount, tolerance)
                  THEN [found |-> TRUE, positions |-> cs[j],
                        combo |-> Pick(amounts, cs[j])]
                  ELSE [found |-> FALSE]

RECURSIVE FirstCombo(_, _, _, _, _)
\* the inner loop (lines 63-66): the first qualifying tuple of cs from position j on
FirstCombo(cs, j, amounts, target_amount, tolerance) ==
    IF j > Len(cs) THEN [found |-> FALSE]
    ELSE IF Qualifies(SumSeq(Pick(amounts, cs[j])), target_amount, tolerance)
         THEN [found |-> TRUE, positions |-> cs[j], combo |-> Pick(amounts, cs[j])]
         ELSE FirstCombo(cs, j + 1, amounts, target_amount, tolerance)

RECURSIVE SearchFromShortRange(_, _, _, _)
\* line 62 written range(1, len(amounts)): the full-size combination is never tried
SearchFromShortRange(r, amounts, target_amount, tolerance) ==
    IF r >= Len(amounts) THEN [found |-> FALSE]
    ELSE LET hit == FirstCombo(Combinations(1, Len(amounts), r), 1,
                               amounts, target_amount, tolerance)
         IN  IF hit.found THEN hit
             ELSE SearchFromShortRange(r + 1, amounts, target_amount, tolerance)

RECURSIVE SearchFrom(_, _, _, _)
\* the outer loop (line 62) from size r on; [found |-> FALSE] is None
SearchFrom(r, amounts, target_amount, tolerance) ==
    IF r > Len(amounts) THEN [found |-> FALSE]
    ELSE LET hit == FirstCombo(Combinations(1, Len(amounts), r), 1,
                               amounts, target_amount, tolerance)
         IN  IF hit.found THEN hit
             ELSE SearchFrom(r + 1, amounts, target_amount, tolerance)

\* line 62 written range(2, len(amounts) + 1): single amounts are never tried
find_matching_transactions_from_pairs(amounts, target_amount, tolerance) ==
    SearchFrom(2, amounts, target_amount, tolerance)

\* amounts is bank_df['AMOUNT'].tolist() (line 60)
find_matching_transactions(amounts, target_amount, tolerance) ==
    SearchFrom(1, amounts, target_amount, tolerance)

AmountsOf(df) == [j \in 1..Len(df) |-> df[j].AMOUNT]

----------------------------------------------------------------------------
(* src/Test6.py: reconcile *)

\* line 71: bank_df['Matched'] = False; line 72: results = []
reconcile_entry ==
    /\ pc = "preprocessed"
    /\ bank_df' = [j \in 1..Len(bank_df) |->
                    [name |-> bank_df[j].name,
                     DESCRIPTION |-> bank_df[j].DESCRIPTION,
                     AMOUNT |-> bank_df[j].AMOUNT,
                     Matched |-> FALSE]]
    /\ results' = <<>>
    /\ it' = 0
    /\ pc' = "reconcile"
    /\ UNCHANGED <<name_dict, bb_df, loaded, call>>

\* lines 79-81 with the name filter left out: every row is a candidate
CounterpartyTransactionsUnfiltered(df, names) == df

\* lines 79-81: the rows whose DESCRIPTION contains any of the statement names
CounterpartyTransactions(df, names) ==
    LET Keep(row) == \E j \in 1..Len(names) : Contains(row.DESCRIPTION, names[j])
    IN  SelectSeq(df, Keep)

\* line 88 with the comparison made against the row label instead of AMOUNT
AmountEqualsLabel(df, amount) ==
    LET Keep(row) == row.name = amount
    IN  SelectSeq(df, Keep)

\* line 88: the candidates whose AMOUNT equals Net Billed
AmountEquals(df, amount) ==
    LET Keep(row) == row.AMOUNT = amount
    IN  SelectSeq(df, Keep)

\* line 92 written as an assignment of the whole column: only the selected row is
\* left marked
SetMatchedColumn(df, label) ==
    [j \in 1..Len(df) |-> [df[j] EXCEPT !.Matched = (df[j].name = label)]]

\* line 92 written as a removal of the selected row
SetMatchedDropsRow(df, label) ==
    LET Keep(row) == row.name # label
    IN  SelectSeq(df, Keep)

\* line 92: bank_df.loc[row.name, 'Matched'] = True
SetMatched(df, label) ==
    [j \in 1..Len(df) |->
        IF df[j].name = label THEN [df[j] EXCEPT !.Matched = TRUE] ELSE df[j]]

\* line 99 with the filtered frame not assigned back to bank_df
DropAmountsNotAssigned(df, combo) == df

\* line 99: bank_df[~bank_df['AMOUNT'].isin(matched_transactions)]
DropAmounts(df, combo) ==
    LET Keep(row) == row.AMOUNT \notin Range(combo)
    IN  SelectSeq(df, Keep)

\* lines 76/85 with the row keyed by the statement name instead of the counterparty
NoMatchRowByStatementName(ar) ==
    [Counterparty |-> ar.StatementNames[1], NetBilled |-> ar.NetBilled,
     PerfectMatch |-> FALSE, StatementAmount |-> NaN,
     Description |-> [tag |-> "No Match"], txns |-> {}]

\* lines 76 and 85/101: the row of a receivable that found no match
NoMatchRow(ar) ==
    [Counterparty |-> ar.Counterparty, NetBilled |-> ar.NetBilled,
     PerfectMatch |-> FALSE, StatementAmount |-> NaN,
     Description |-> [tag |-> "No Match"], txns |-> {}]

\* one iteration of the loop of reconcile (lines 74-103).  txns is not a column of
\* the result: it records the index labels of the rows the iteration selected.
reconcile_step ==
    /\ pc = "reconcile"
    /\ it < Len(bb_df)
    /\ LET ar == bb_df[it + 1]
           counterparty_transactions == CounterpartyTransactions(bank_df, ar.StatementNames)
           match == AmountEquals(counterparty_transactions, ar.NetBilled)
           matched_transactions ==
               find_matching_transactions(AmountsOf(counterparty_transactions),
                                          ar.NetBilled, Tolerance)
       IN  IF counterparty_transactions = <<>>
           THEN /\ results' = Append(results, NoMatchRow(ar))
                /\ call' = NoCall
                /\ UNCHANGED bank_df
           ELSE IF match # <<>>
           THEN /\ results' = Append(results,
                        [Counterparty |-> ar.Counterparty, NetBilled |-> ar.NetBilled,
                         PerfectMatch |-> TRUE, StatementAmount |-> match[1].AMOUNT,
                         Description |-> [tag |-> "row", text |-> match[1].DESCRIPTION],
                         txns |-> {match[1].name}])
                /\ bank_df' = SetMatched(bank_df, match[1].name)
                /\ call' = NoCall
           ELSE /\ call' = [made |-> TRUE,
                            rows |-> {counterparty_transactions[j].name :
                                        j \in 1..Len(counterparty_transactions)},
                            result |-> matched_transactions]
                /\ IF matched_transactions.found
                   THEN /\ results' = Append(results,
                                [Counterparty |-> ar.Counterparty,
                                 NetBilled |-> ar.NetBilled,
                                 PerfectMatch |-> FALSE,
                                 StatementAmount |-> SumSeq(matched_transactions.combo),
                                 Description |-> [tag |-> "Multiple Transactions",
                                                  amounts |-> matched_transactions.combo],
                                 txns |-> {counterparty_transactions[
                                              matched_transactions.positions[j]].name :
                                           j \in 1..Len(matched_transactions.positions)}])
                        /\ bank_df' = DropAmounts(bank_df, matched_transactions.combo)
                   ELSE /\ results' = Append(results, NoMatchRow(ar))
                        /\ UNCHANGED bank_df
    /\ it' = it + 1
    /\ UNCHANGED <<pc, name_dict, bb_df, loaded>>

\* line 105: the loop is exhausted, reconcile returns the result table
reconcile_return ==
    /\ pc = "reconcile"
    /\ it = Len(bb_df)
    /\ pc' = "done"
    /\ UNCHANGED <<name_dict, bank_df, bb_df, it, results, loaded, call>>

----------------------------------------------------------------------------
(* main() of src/Test6.py *)

\* the tables load_data hands to main
Init ==
    /\ pc = "loaded"
    /\ name_dict \in Dicts
    /\ bank_df \in {WithIndex(rows) : rows \in SeqsUpTo(BankRows, 0, MaxTxns)}
    /\ bb_df \in SeqsUpTo(BBRows, 0, MaxRecv)
    /\ it = 0
    /\ results = <<>>
    /\ loaded = <<>>
    /\ call = NoCall

Next ==
    \/ preprocess_data
    \/ reconcile_entry
    \/ reconcile_step
    \/ reconcile_return

Spec == Init /\ [][Next]_vars

----------------------------------------------------------------------------
(* src/work_ai.py: preprocess_data *)

\* name_dict as load_data of work_ai.py builds it: Counterparty -> str
WDictFuzzy == (cpAc :> <<"p", "a", "y", " ", "a", "c">>)
WDictExact == (cpAc :> <<"A", "c", " ", "p", "a", "y">>) @@ (cpGh :> <<"z", "z">>)
WDicts == {WDictFuzzy, WDictExact}

\* line 22: .map(name_dict).fillna(bb_df['Counterparty'])
FillNa(x, other) == IF x.isna THEN other ELSE x.value

preprocess_data_work_ai ==
    /\ pc = "loaded"
    /\ bb_df' = [j \in 1..Len(bb_df) |->
                    [Counterparty |-> bb_df[j].Counterparty,
                     NetBilled |-> bb_df[j].NetBilled,
                     StatementName |->
                        Upper(FillNa(SeriesMap(name_dict, bb_df[j].Counterparty),
                                     bb_df[j].Counterparty))]]
    /\ bank_df' = [j \in 1..Len(bank_df) |->
                    [name |-> bank_df[j].name,
                     DESCRIPTION |-> Upper(bank_df[j].DESCRIPTION),
                     AMOUNT |-> bank_df[j].AMOUNT]]
    /\ loaded' = bank_df'
    /\ pc' = "preprocessed"
    /\ UNCHANGED <<name_dict, it, results, call>>

----------------------------------------------------------------------------
(* src/work_ai.py: fuzzy_match, with rapidfuzz's extractOne and token_sort_ratio *)

\* code point order of the characters of the model's alphabet
Ord(c) ==
    CASE c = " " -> 32
      [] c = "A" -> 65 [] c = "C" -> 67 [] c = "G" -> 71 [] c = "H" -> 72
      [] c = "N" -> 78 [] c = "P" -> 80 [] c = "Y" -> 89 [] c = "Z" -> 90
      [] c = "a" -> 97 [] c = "c" -> 99 [] c = "g" -> 103 [] c = "h" -> 104
      [] c = "n" -> 110 [] c = "p" -> 112 [] c = "y" -> 121 [] c = "z" -> 122

RECURSIVE StrLess(_, _)
\* Python's < on two strings
StrLess(a, b) ==
    IF b = <<>> THEN FALSE
    ELSE IF a = <<>> THEN TRUE
    ELSE IF a[1] # b[1] THEN Ord(a[1]) < Ord(b[1])
    ELSE StrLess(Tail(a), Tail(b))

RECURSIVE Split(_, _)
\* str.split(): the maximal runs without a blank; cur is the run being read
Split(s, cur) ==
    IF s = <<>> THEN (IF cur = <<>> THEN <<>> ELSE <<cur>>)
    ELSE IF s[1] = " " THEN (IF cur = <<>> THEN <<>> ELSE <<cur>>) \o Split(Tail(s), <<>>)
    ELSE Split(Tail(s), Append(cur, s[1]))

RECURSIVE Insert(_, _)
Insert(sorted, t) ==
    IF sorted = <<>> THEN <<t>>
    ELSE IF StrLess(t, sorted[1]) THEN <<t>> \o sorted
    ELSE <<sorted[1]>> \o Insert(Tail(sorted), t)

RECURSIVE Sorted(_)
\* sorted() of a list of tokens
Sorted(ts) == IF ts = <<>> THEN <<>> ELSE Insert(Sorted(Tail(ts)), ts[1])

RECURSIVE Join(_)
\* " ".join(tokens)
Join(ts) ==
    IF ts = <<>> THEN <<>>
    ELSE IF Len(ts) = 1 THEN ts[1]
    ELSE ts[1] \o <<" ">> \o Join(Tail(ts))

RECURSIVE LCS(_, _)
\* length of a longest common subsequence
LCS(a, b) ==
    IF a = <<>> \/ b = <<>> THEN 0
    ELSE IF a[1] = b[1] THEN 1 + LCS(Tail(a), Tail(b))
    ELSE LET x == LCS(Tail(a), b)
             y == LCS(a, Tail(b))
         IN  IF x >= y THEN x ELSE y

\* fuzz.token_sort_ratio: the normalized Indel similarity of the two strings with
\* their tokens sorted, as the fraction num/den of 100 (100 for two empty strings)
token_sort_ratio(s1, s2) ==
    LET a == Join(Sorted(Split(s1, <<>>)))
        b == Join(Sorted(Split(s2, <<>>)))
    IN  IF Len(a) + Len(b) = 0 THEN [num |-> 100, den |-> 1]
        ELSE [num |-> 200 * LCS(a, b), den |-> Len(a) + Len(b)]

ScoreGreater(x, y) == x.num * y.den > y.num * x.den

\* score >= threshold written score > threshold
ScoreAbove(x, threshold) == x.num > threshold * x.den

\* score >= threshold
ScoreAtLeast(x, threshold) == x.num >= threshold * x.den

RECURSIVE BestOf(_, _, _, _)
\* process.extractOne over choices from position j on: a later choice replaces
\* the best so far only with a strictly greater score
BestOf(name, choices, j, best) ==
    IF j > Len(choices) THEN best
    ELSE LET score == token_sort_ratio(name, choices[j])
         IN  IF ~best.some \/ ScoreGreater(score, best.score)
             THEN BestOf(name, choices, j + 1,
                         [some |-> TRUE, match |-> choices[j], score |-> score])
             ELSE BestOf(name, choices, j + 1, best)

\* process.extractOne: [some |-> FALSE] is None, which it returns for no choices
extractOne(name, choices) == BestOf(name, choices, 1, [some |-> FALSE])

\* default of the threshold parameter of work_ai.py's fuzzy_match
ThresholdWorkAi == 80

\* lines 30-33: unpacking the None extractOne returns for an empty choices raises
\* TypeError; otherwise the match, or None below the threshold
fuzzy_match_work_ai(name, choices, threshold) ==
    LET best == extractOne(name, choices)
    IN  IF ~best.some THEN [raised |-> TRUE]
        ELSE IF ScoreAtLeast(best.score, threshold)
             THEN [raised |-> FALSE, none |-> FALSE, match |-> best.match]
             ELSE [raised |-> FALSE, none |-> TRUE]

RECURSIVE Unique(_, _)
\* Series.unique(): the distinct values in order of first appearance
Unique(s, seen) ==
    IF s = <<>> THEN <<>>
    ELSE IF s[1] \in seen THEN Unique(Tail(s), seen)
    ELSE <<s[1]>> \o Unique(Tail(s), seen \cup {s[1]})

----------------------------------------------------------------------------
(* src/work_ai.py: find_matching_transactions and reconcile *)

\* lines 35-43: round(sum(combo), 2) == round(target_amount, 2); on whole units
\* rounding to cents changes nothing and the test is equality
find_matching_transactions_work_ai(amounts, target_amount) ==
    SearchFrom(1, amounts, target_amount, 0)

\* lines 54 and 63: DESCRIPTION == name and AMOUNT == Net Billed
NameAndAmountEqual(df, possible, amount) ==
    LET Keep(row) == (~possible.none /\ row.DESCRIPTION = possible.match)
                        /\ row.AMOUNT = amount
    IN  SelectSeq(df, Keep)

ExactRow(ar, row) ==
    [Counterparty |-> ar.Counterparty, NetBilled |-> ar.NetBilled,
     PerfectMatch |-> TRUE, StatementAmount |-> row.AMOUNT,
     Description |-> [tag |-> "row", text |-> row.DESCRIPTION],
     txns |-> {row.name}]

\* one iteration of the loop of reconcile (lines 50-78)
reconcile_step_work_ai ==
    /\ pc = "reconcile"
    /\ it < Len(bb_df)
    /\ LET ar == bb_df[it + 1]
           match == NameAndAmountEqual(bank_df,
                        [none |-> FALSE, match |-> ar.StatementName], ar.NetBilled)
           possible_name ==
               fuzzy_match_work_ai(ar.StatementName,
                   Unique([j \in 1..Len(bank_df) |-> bank_df[j].DESCRIPTION], {}),
                   ThresholdWorkAi)
           match2 == NameAndAmountEqual(bank_df, possible_name, ar.NetBilled)
           matched_transactions ==
               find_matching_transactions_work_ai(AmountsOf(bank_df), ar.NetBilled)
       IN  IF match # <<>>
           THEN /\ results' = Append(results, ExactRow(ar, match[1]))
                /\ bank_df' = SetMatched(bank_df, match[1].name)
                /\ call' = NoCall
                /\ it' = it + 1
                /\ pc' = pc
           ELSE IF possible_name.raised
           THEN /\ pc' = "error"
                /\ UNCHANGED <<results, bank_df, call, it>>
           ELSE IF match2 # <<>>
           THEN /\ results' = Append(results, ExactRow(ar, match2[1]))
                /\ bank_df' = SetMatched(bank_df, match2[1].name)
                /\ call' = NoCall
                /\ it' = it + 1
                /\ pc' = pc
           ELSE /\ call' = [made |-> TRUE, rows |-> Labels(bank_df),
                            result |-> matched_transactions]
                /\ IF matched_transactions.found
                   THEN /\ results' = Append(results,
                                [Counterparty |-> ar.Counterparty,
                                 NetBilled |-> ar.NetBilled,
                                 PerfectMatch |-> FALSE,
                                 StatementAmount |-> SumSeq(matched_transactions.combo),
                                 Description |-> [tag |-> "Multiple Transactions",
                                                  amounts |-> matched_transactions.combo],
                                 txns |-> {bank_df[matched_transactions.positions[j]].name :
                                           j \in 1..Len(matched_transactions.positions)}])
                        /\ bank_df' = DropAmounts(bank_df, matched_transactions.combo)
                   ELSE /\ results' = Append(results, NoMatchRow(ar))
                        /\ UNCHANGED bank_df
                /\ it' = it + 1
                /\ pc' = pc
    /\ UNCHANGED <<name_dict, bb_df, loaded>>

\* the tables load_data of work_ai.py hands to main
InitWorkAi ==
    /\ pc = "loaded"
    /\ name_dict \in WDicts
    /\ bank_df \in {WithIndex(rows) : rows \in SeqsUpTo(BankRows, 0, MaxTxns)}
    /\ bb_df \in SeqsUpTo(BBRows, 0, MaxRecv)
    /\ it = 0
    /\ results = <<>>
    /\ loaded = <<>>
    /\ call = NoCall

NextWorkAi ==
    \/ preprocess_data_work_ai
    \/ reconcile_entry
    \/ reconcile_step_work_ai
    \/ reconcile_return

SpecWorkAi == InitWorkAi /\ [][NextWorkAi]_vars

----------------------------------------------------------------------------
(* find_matching_transactions on its own: the arguments are drawn at the start *)
(* and the call is one step                                                    *)

FindAmounts == {-2, 1, 3, 5}
FindTargets == {4, 6}
FindTolerances == {0, 1, 5}

InitFind ==
    /\ pc = "find"
    /\ call \in [made : {FALSE},
                 amounts : SeqsUpTo(FindAmounts, 0, MaxTxns),
                 target_amount : FindTargets,
                 tolerance : FindTolerances]
    /\ name_dict = <<>>
    /\ bank_df = <<>>
    /\ bb_df = <<>>
    /\ it = 0
    /\ results = <<>>
    /\ loaded = <<>>

find_call ==
    /\ pc = "find"
    /\ ~call.made
    /\ call' = [made |-> TRUE,
                amounts |-> call.amounts,
                target_amount |-> call.target_amount,
                tolerance |-> call.tolerance,
                result |-> find_matching_transactions(call.amounts, call.target_amount,
                                                      call.tolerance)]
    /\ pc' = "returned"
    /\ UNCHANGED <<name_dict, bank_df, bb_df, it, results, loaded>>

NextFind == find_call

SpecFind == InitFind /\ [][NextFind]_vars

----------------------------------------------------------------------------
(* src/Test6.py: fuzzy_match, on its own: the arguments are drawn at the start *)
(* and the call is one step                                                    *)

\* lines 51-56: None for no choices; otherwise the best match, or None below the
\* threshold.  choices is a list.
fuzzy_match(name, choices, threshold) ==
    IF choices = <<>> THEN [raised |-> FALSE, none |-> TRUE]
    ELSE LET best == extractOne(name, choices)
         IN  IF ScoreAtLeast(best.score, threshold)
             THEN [raised |-> FALSE, none |-> FALSE, match |-> best.match]
             ELSE [raised |-> FALSE, none |-> TRUE]

FuzzyNames == {<<"A", "C">>, <<"P", "A", "Y", " ", "A", "C">>}
FuzzyChoices == {<<"A", "C", "Z">>, <<"A", "C", " ", "P", "A", "Y">>, <<"G", "H">>}
FuzzyThresholds == {80, 81, 85}

InitFuzzy ==
    /\ pc = "fuzzy"
    /\ call \in [made : {FALSE},
                 name : FuzzyNames,
                 choices : SeqsUpTo(FuzzyChoices, 0, MaxTxns),
                 threshold : FuzzyThresholds]
    /\ name_dict = <<>>
    /\ bank_df = <<>>
    /\ bb_df = <<>>
    /\ it = 0
    /\ results = <<>>
    /\ loaded = <<>>

fuzzy_call ==
    /\ pc = "fuzzy"
    /\ ~call.made
    /\ call' = [made |-> TRUE,
                name |-> call.name,
                choices |-> call.choices,
                threshold |-> call.threshold,
                result |-> fuzzy_match(call.name, call.choices, call.threshold)]
    /\ pc' = "fuzzy_returned"
    /\ UNCHANGED <<name_dict, bank_df, bb_df, it, results, loaded>>

NextFuzzy == fuzzy_call

SpecFuzzy == InitFuzzy /\ [][NextFuzzy]_vars

----------------------------------------------------------------------------
(* Reading the result table *)

\* the outcome a result row encodes: Perfect Match, or the Description it carries
Kind(r) ==
    IF r.PerfectMatch THEN "Exact"
    ELSE IF r.Description.tag = "Multiple Transactions" THEN "MultiTransaction"
    ELSE "Unmatched"

Last(s) == s[Len(s)]

\* the iteration of reconcile that is about to run, and the row it appends
Stepping == pc = "reconcile" /\ it < Len(bb_df)

\* the row of the loaded bank table with a given index label
LoadedRow(label) == CHOOSE row \in Range(loaded) : row.name = label

RECURSIVE SumAmounts(_)
SumAmounts(labels) ==
    IF labels = {} THEN 0
    ELSE LET l == CHOOSE x \in labels : TRUE
         IN  LoadedRow(l).AMOUNT + SumAmounts(labels \ {l})

\* the rows of df a receivable's statement names select, by position
CandidatePositions(df, ar) ==
    {j \in 1..Len(df) :
        \E n \in Range(ar.StatementNames) : Contains(df[j].DESCRIPTION, n)}

Min(S) == CHOOSE x \in S : \A y \in S : x <= y

----------------------------------------------------------------------------
(* C1 -- Uniqueness: no transaction (by index label) is reported as matched by *)
(* more than one result row.                                                   *)
C1_Uniqueness ==
    \A j, k \in 1..Len(results) :
        j < k => results[j].txns \cap results[k].txns = {}

(* C2 -- a multi-transaction step changes the consumption state of exactly the *)
(* rows of the returned combination: those rows leave the pool, no other row   *)
(* leaves it and no Matched flag changes.                                      *)
C2_MultiConsumesExactlyCombination ==
    [][(Stepping /\ Len(results') = Len(results) + 1
            /\ Kind(Last(results')) = "MultiTransaction")
        => /\ Labels(bank_df) \ Labels(bank_df') = Last(results').txns
           /\ \A j \in 1..Len(bank_df), k \in 1..Len(bank_df') :
                bank_df[j].name = bank_df'[k].name
                    => bank_df[j].Matched = bank_df'[k].Matched]_vars

(* C3 -- Amount consistency: every result row that is not Unmatched reports    *)
(* the sum of the amounts of its matched transactions, equal to Net Billed for *)
(* an Exact match and within the tolerance of Net Billed otherwise.            *)
C3_AmountConsistency ==
    \A k \in 1..Len(results) :
        Kind(results[k]) # "Unmatched" =>
            /\ results[k].txns # {}
            /\ results[k].StatementAmount = SumAmounts(results[k].txns)
            /\ Abs(results[k].StatementAmount - results[k].NetBilled) <= Tolerance
            /\ Kind(results[k]) = "Exact" =>
                    results[k].StatementAmount = results[k].NetBilled

\* a multi-transaction row of two or more rows whose sum differs from Net Billed
C3_Witness ==
    \E k \in 1..Len(results) :
        /\ Kind(results[k]) = "MultiTransaction"
        /\ Cardinality(results[k].txns) >= 2
        /\ results[k].StatementAmount # results[k].NetBilled

(* C4 -- Priority ordering: when a candidate's amount equals Net Billed, the   *)
(* iteration appends the Exact row of the first such candidate (Perfect Match  *)
(* true, that single transaction), never a multi-transaction row.              *)
C4_ExactBeforeMulti ==
    [][(Stepping /\
        {j \in CandidatePositions(bank_df, bb_df[it + 1]) :
            bank_df[j].AMOUNT = bb_df[it + 1].NetBilled} # {})
        => LET first == Min({j \in CandidatePositions(bank_df, bb_df[it + 1]) :
                                bank_df[j].AMOUNT = bb_df[it + 1].NetBilled})
           IN  /\ Len(results') = Len(results) + 1
               /\ Kind(Last(results')) = "Exact"
               /\ Last(results').PerfectMatch
               /\ Last(results').txns = {bank_df[first].name}
               /\ Last(results').StatementAmount = bb_df[it + 1].NetBilled]_vars

\* the first receivable was matched Exact although two or more of its candidates
\* also sum to within the tolerance of its Net Billed
C4_Witness ==
    /\ Len(results) >= 1
    /\ Kind(results[1]) = "Exact"
    /\ \E S \in SUBSET CandidatePositions(loaded, bb_df[1]) :
          /\ Cardinality(S) >= 2
          /\ Abs(SumAmounts({loaded[j].name : j \in S}) - bb_df[1].NetBilled) <= Tolerance

(* C5 -- Order preservation: when reconcile has returned, the result table has *)
(* one row per receivable and row k carries the Counterparty and Net Billed of *)
(* receivable k.                                                               *)
C5_OrderPreserved ==
    pc = "done" =>
        /\ Len(results) = Len(bb_df)
        /\ \A k \in 1..Len(bb_df) :
              /\ results[k].Counterparty = bb_df[k].Counterparty
              /\ results[k].NetBilled = bb_df[k].NetBilled

\* a finished run of two or more receivables with different outcomes, one Unmatched
C5_Witness ==
    /\ pc = "done"
    /\ Len(results) >= 2
    /\ \E j, k \in 1..Len(results) :
          Kind(results[j]) = "Unmatched" /\ Kind(results[k]) # "Unmatched"

(* C6 -- Full consumption: a receivable processed while every transaction of   *)
(* the pool is marked consumed (Matched = True) resolves to Unmatched.         *)
C6_FullyConsumedGivesUnmatched ==
    [][(Stepping /\ \A j \in 1..Len(bank_df) : bank_df[j].Matched)
        => Kind(Last(results')) = "Unmatched"]_vars

(* C7 -- Fallback aliasing: after preprocess_data a counterparty without a     *)
(* dictionary entry has the one-element alias set of its upper-cased name, and *)
(* no alias set is empty.                                                      *)
C7_FallbackAlias ==
    pc # "loaded" =>
        \A j \in 1..Len(bb_df) :
            /\ Range(bb_df[j].StatementNames) # {}
            /\ bb_df[j].Counterparty \notin DOMAIN name_dict
                => Range(bb_df[j].StatementNames) = {Upper(bb_df[j].Counterparty)}

(* C8 -- Per-receivable processing never throws: no iteration of reconcile of  *)
(* work_ai.py ends in an error, whatever the pool (an empty one included).     *)
C8_NeverThrows == pc # "error"

RECURSIVE SumAt(_, _)
\* the sum of the amounts at a set of positions
SumAt(amounts, S) ==
    IF S = {} THEN 0
    ELSE LET j == CHOOSE x \in S : TRUE
         IN  amounts[j] + SumAt(amounts, S \ {j})

\* the non-empty sets of positions whose amounts sum to within tolerance of target
QualifyingSets(amounts, target_amount, tolerance) ==
    {S \in SUBSET (1..Len(amounts)) :
        S # {} /\ Abs(SumAt(amounts, S) - target_amount) <= tolerance}

\* P comes no later than S among the position tuples of one size
LexFirst(P, S) == P = S \/ Min((P \ S) \cup (S \ P)) \in P

(* C9 -- find_matching_transactions returns None exactly when no non-empty     *)
(* combination qualifies; otherwise it returns a qualifying combination of the *)
(* least size, the first one of that size in lexicographic order of positions. *)
C9_FirstQualifyingCombination ==
    (pc = "returned" /\ call.made) =>
        LET Q == QualifyingSets(call.amounts, call.target_amount, call.tolerance)
            r == call.result
        IN  /\ r.found <=> Q # {}
            /\ r.found =>
                LET P == Range(r.positions)
                IN  /\ \A j \in 1..(Len(r.positions) - 1) :
                            r.positions[j] < r.positions[j + 1]
                    /\ r.combo = [j \in 1..Len(r.positions) |->
                                    call.amounts[r.positions[j]]]
                    /\ P \in Q
                    /\ \A S \in Q :
                          /\ Cardinality(S) >= Cardinality(P)
                          /\ Cardinality(S) = Cardinality(P) => LexFirst(P, S)

\* a call that returned a combination of two or more amounts although another
\* combination of the same size qualifies as well
C9_Witness ==
    /\ pc = "returned"
    /\ call.made
    /\ call.result.found
    /\ Len(call.result.positions) >= 2
    /\ \E S \in QualifyingSets(call.amounts, call.target_amount, call.tolerance) :
          /\ Cardinality(S) = Len(call.result.positions)
          /\ S # Range(call.result.positions)

\* the statement names of a receivable, in either variant's column
Aliases(ar) ==
    IF "StatementNames" \in DOMAIN ar THEN Range(ar.StatementNames)
    ELSE {ar.StatementName}

(* C10 -- every transaction a result row reports as matched has a description  *)
(* that contains one of the receivable's aliases, and the subset-sum search is *)
(* given rows of such transactions only.                                       *)
C10_MatchedAreCandidates ==
    pc \in {"reconcile", "done"} =>
        /\ \A k \in 1..Len(results) : \A label \in results[k].txns :
              \E n \in Aliases(bb_df[k]) : Contains(LoadedRow(label).DESCRIPTION, n)
        /\ (call.made /\ it >= 1) =>
              \A label \in call.rows :
                  \E n \in Aliases(bb_df[it]) : Contains(LoadedRow(label).DESCRIPTION, n)

\* the configured limit on the size of a combination that the design asks for
max_combination_size == 2

(* C11 -- the subset-sum search is bounded: it does not go on past the         *)
(* configured maximum combination size, so no combination it returns is larger *)
(* than that limit.                                                            *)
C11_SearchBounded ==
    (pc \in {"reconcile", "done"} /\ call.made /\ call.result.found)
        => Len(call.result.positions) <= max_combination_size

(* C12 -- Empty-candidate short-circuit: an iteration for a receivable none of *)
(* whose aliases occurs in a description of the pool appends the Unmatched row *)
(* ('No Match', no amount) without calling the subset-sum search and leaves    *)
(* the pool as it is.                                                          *)
C12_EmptyCandidatesShortCircuit ==
    [][(Stepping /\ CandidatePositions(bank_df, bb_df[it + 1]) = {})
        => /\ Len(results') = Len(results) + 1
           /\ Last(results').Description.tag = "No Match"
           /\ ~Last(results').PerfectMatch
           /\ Last(results').StatementAmount = NaN
           /\ Last(results').txns = {}
           /\ ~call'.made
           /\ bank_df' = bank_df]_vars

\* the first receivable found a non-empty pool without a candidate
C12_Witness ==
    /\ Len(results) >= 1
    /\ loaded # <<>>
    /\ CandidatePositions(loaded, bb_df[1]) = {}
    /\ Kind(results[1]) = "Unmatched"

\* a loaded transaction is consumed: marked Matched, or no longer in the pool
Consumed(df, label) ==
    \A j \in 1..Len(df) : df[j].name = label => df[j].Matched

(* C13 -- Consumption is monotonic: within a run of reconcile a transaction    *)
(* that is consumed (Matched = True, or removed from the pool) is consumed in  *)
(* every later state, and a removed row is never back in the pool.             *)
C13_ConsumptionMonotonic ==
    [][pc = "reconcile" =>
        /\ \A label \in Labels(loaded) :
              Consumed(bank_df, label) => Consumed(bank_df', label)
        /\ Labels(bank_df') \subseteq Labels(bank_df)]_vars

\* the row the first receivable marked Matched is still marked after the second
\* receivable's iteration, which removed other rows from the pool
C13_Witness ==
    /\ pc = "reconcile"
    /\ Len(results) >= 2
    /\ Kind(results[1]) = "Exact"
    /\ \E j \in 1..Len(bank_df) :
          bank_df[j].name \in results[1].txns /\ bank_df[j].Matched
    /\ Labels(loaded) \ Labels(bank_df) # {}

(* C14 -- Greedy, no backtracking: receivables are processed in input order,   *)
(* an appended result row is never changed by a later iteration, and a         *)
(* transaction consumed by a multi-transaction match is not matched to any     *)
(* later receivable.                                                           *)
C14_GreedyNoBacktracking ==
    /\ [][pc = "reconcile" =>
            /\ Len(results') >= Len(results)
            /\ \A k \in 1..Len(results) : results'[k] = results[k]
            /\ it' \in {it, it + 1}
            /\ Len(results') = Len(results) + 1 =>
                  /\ it' = it + 1
                  /\ Last(results').Counterparty = bb_df[it + 1].Counterparty
                  /\ Last(results').NetBilled = bb_df[it + 1].NetBilled]_vars
    /\ [](\A j, k \in 1..Len(results) :
            (j < k /\ Kind(results[j]) = "MultiTransaction")
                => results[j].txns \cap results[k].txns = {})

\* the second receivable's Net Billed equals the amount of a transaction that the
\* first receivable's multi-transaction match consumed, and both share an alias
C14_Witness ==
    /\ Len(results) >= 2
    /\ Kind(results[1]) = "MultiTransaction"
    /\ \E label \in results[1].txns :
          /\ LoadedRow(label).AMOUNT = bb_df[2].NetBilled
          /\ \E n \in Aliases(bb_df[2]) : Contains(LoadedRow(label).DESCRIPTION, n)

(* C17 -- Frame: an iteration that appends an Unmatched row leaves the pool    *)
(* unchanged; an iteration that appends an Exact row sets the Matched flag of  *)
(* the selected row and changes nothing else, removing no row.                 *)
C17_UnmatchedAndExactFrame ==
    [][(Stepping /\ Len(results') = Len(results) + 1) =>
        /\ Kind(Last(results')) = "Unmatched" => bank_df' = bank_df
        /\ Kind(Last(results')) = "Exact" =>
              /\ Len(bank_df') = Len(bank_df)
              /\ \A j \in 1..Len(bank_df) :
                    IF bank_df[j].name \in Last(results').txns
                    THEN bank_df'[j] = [bank_df[j] EXCEPT !.Matched = TRUE]
                    ELSE bank_df'[j] = bank_df[j]]_vars

\* an Exact row whose iteration left another row of the pool in place, followed
\* by an Unmatched row decided by the subset-sum search
C17_Witness ==
    /\ Len(results) >= 2
    /\ Kind(results[1]) = "Exact"
    /\ Kind(results[2]) = "Unmatched"
    /\ call.made
    /\ Len(bank_df) >= 2

(* C18 -- when no candidate's amount equals Net Billed and some candidate's    *)
(* amount is within 1 of it, the iteration appends a 'Multiple Transactions'   *)
(* row of exactly the first such candidate, with Perfect Match false and that  *)
(* candidate's amount as Statement Amount.                                     *)
C18_SingleWithinTolerance ==
    [][(Stepping /\
        LET ar == bb_df[it + 1]
            C == CandidatePositions(bank_df, ar)
        IN  /\ \A j \in C : bank_df[j].AMOUNT # ar.NetBilled
            /\ \E j \in C : Abs(bank_df[j].AMOUNT - ar.NetBilled) <= 1)
        => LET ar == bb_df[it + 1]
               first == Min({j \in CandidatePositions(bank_df, ar) :
                                Abs(bank_df[j].AMOUNT - ar.NetBilled) <= 1})
           IN  /\ Len(results') = Len(results) + 1
               /\ Last(results').Description.tag = "Multiple Transactions"
               /\ Last(results').Description.amounts = <<bank_df[first].AMOUNT>>
               /\ ~Last(results').PerfectMatch
               /\ Last(results').txns = {bank_df[first].name}
               /\ Last(results').StatementAmount = bank_df[first].AMOUNT
               /\ Last(results').StatementAmount # ar.NetBilled]_vars

\* a 'Multiple Transactions' row of one transaction whose amount is not Net Billed
C18_Witness ==
    \E k \in 1..Len(results) :
        /\ Kind(results[k]) = "MultiTransaction"
        /\ Cardinality(results[k].txns) = 1
        /\ results[k].StatementAmount # results[k].NetBilled

\* the absolute variance of a set of positions from the target
Variance(amounts, S, target_amount) == Abs(SumAt(amounts, S) - target_amount)

\* the explicit tie-break 'fewest transactions, then earliest original positions'
FewestThenEarliest(Q) ==
    CHOOSE P \in Q : \A S \in Q :
        \/ Cardinality(P) < Cardinality(S)
        \/ Cardinality(P) = Cardinality(S) /\ LexFirst(P, S)

\* the explicit tie-break 'fewest transactions, then smallest absolute variance,
\* then earliest original positions'
FewestThenVarianceThenEarliest(Q, amounts, target_amount) ==
    CHOOSE P \in Q : \A S \in Q :
        \/ Cardinality(P) < Cardinality(S)
        \/ /\ Cardinality(P) = Cardinality(S)
           /\ \/ Variance(amounts, P, target_amount) < Variance(amounts, S, target_amount)
              \/ /\ Variance(amounts, P, target_amount) = Variance(amounts, S, target_amount)
                 /\ LexFirst(P, S)

(* C15 (as claimed) -- the combination find_matching_transactions returns is   *)
(* the one the tie-break 'fewest transactions, then smallest absolute          *)
(* variance, then earliest positions' selects among the qualifying ones.       *)
C15_TieBreakWithVariance ==
    (pc = "returned" /\ call.made /\ call.result.found) =>
        Range(call.result.positions) =
            FewestThenVarianceThenEarliest(
                QualifyingSets(call.amounts, call.target_amount, call.tolerance),
                call.amounts, call.target_amount)

(* C15 (amended) -- the combination find_matching_transactions returns is the  *)
(* one the tie-break 'fewest transactions, then earliest positions' selects;   *)
(* with tolerance 0 this is also the selection of 'fewest, then smallest       *)
(* variance, then earliest'.                                                   *)
C15_TieBreakFewestThenEarliest ==
    (pc = "returned" /\ call.made) =>
        LET Q == QualifyingSets(call.amounts, call.target_amount, call.tolerance)
        IN  /\ Q # {} => call.result.found
            /\ call.result.found =>
                /\ Range(call.result.positions) = FewestThenEarliest(Q)
                /\ call.tolerance = 0 =>
                      Range(call.result.positions) =
                          FewestThenVarianceThenEarliest(Q, call.amounts,
                                                         call.target_amount)

\* a call that returned a combination although a later combination of the same
\* size is closer to the target
C15_Witness ==
    /\ pc = "returned"
    /\ call.made
    /\ call.result.found
    /\ \E S \in QualifyingSets(call.amounts, call.target_amount, call.tolerance) :
          /\ Cardinality(S) = Len(call.result.positions)
          /\ Variance(call.amounts, S, call.target_amount)
                < Variance(call.amounts, Range(call.result.positions), call.target_amount)

(* C16 -- Fuzzy threshold boundary: fuzzy_match returns a best-scoring choice  *)
(* when that score is at least the threshold (a score equal to the threshold   *)
(* is accepted), and None when every score is below the threshold or there is  *)
(* no choice; it does not raise.                                               *)
C16_FuzzyThresholdBoundary ==
    (pc = "fuzzy_returned" /\ call.made) =>
        LET score(j) == token_sort_ratio(call.name, call.choices[j])
            reaching == {j \in 1..Len(call.choices) :
                            score(j).num >= call.threshold * score(j).den}
            r == call.result
        IN  /\ ~r.raised
            /\ r.none <=> reaching = {}
            /\ ~r.none =>
                  \E j \in reaching :
                      /\ r.match = call.choices[j]
                      /\ \A k \in 1..Len(call.choices) :
                            score(k).num * score(j).den <= score(j).num * score(k).den

\* a call whose best score equals the threshold and whose match was returned
C16_Witness ==
    /\ pc = "fuzzy_returned"
    /\ call.made
    /\ ~call.result.none
    /\ LET sc == token_sort_ratio(call.name, call.result.match)
       IN  sc.num = call.threshold * sc.den

\* a call whose best score is one point below the threshold and returned None
C16_WitnessBelow ==
    /\ pc = "fuzzy_returned"
    /\ call.made
    /\ call.result.none
    /\ \E j \in 1..Len(call.choices) :
          LET sc == token_sort_ratio(call.name, call.choices[j])
          IN  sc.num = (call.threshold - 1) * sc.den

====
